---- MODULE Spec2Model ----
(***************************************************************************)
(* A model of the Redis-style server of src/redis: the RESP codec          *)
(* (resp.py), the key-value store with lazy expiry and the master /        *)
(* replica engine (database.py, command.py, models.py) and the stream      *)
(* store (stream.py).                                                      *)
(*                                                                         *)
(* Bytes and Python strings are TLA+ strings (ASCII only: len() of a str   *)
(* and of its encoding agree).  Python's None is the empty tuple <<>> and  *)
(* a present optional value x is <<x>>.                                    *)
(***************************************************************************)
EXTENDS Integers, Sequences, FiniteSets, TLC

(***************************************************************************)
(* Python primitives used by the source                                    *)
(***************************************************************************)

CRLF == "\r\n"

None == <<>>

Some(x) == <<x>>

\* Python truthiness of an optional number: None and 0 are falsy.
Truthy(opt) == opt # None /\ opt[1] # 0

Digits == "0123456789"

DigitStr(d) == SubSeq(Digits, d + 1, d + 1)

IsDigit(c) == \E d \in 0..9 : DigitStr(d) = c

DigitVal(c) == CHOOSE d \in 0..9 : DigitStr(d) = c

RECURSIVE NatToStr(_)
NatToStr(n) == IF n < 10 THEN DigitStr(n)
               ELSE NatToStr(n \div 10) \o DigitStr(n % 10)

\* str(n) / f'{n}' of an int
IntToStr(n) == IF n < 0 THEN "-" \o NatToStr(0 - n) ELSE NatToStr(n)

AllDigits(s) == \A i \in 1..Len(s) : IsDigit(SubSeq(s, i, i))

RECURSIVE DigitsToNat(_)
DigitsToNat(s) == IF s = "" THEN 0
                  ELSE 10 * DigitsToNat(SubSeq(s, 1, Len(s) - 1))
                       + DigitVal(SubSeq(s, Len(s), Len(s)))

\* int(s): an optional sign and one or more decimal digits; anything else
\* raises ValueError (ok = FALSE).  Surrounding whitespace and underscores,
\* which int() also accepts, are not among the inputs of this model.
PyInt(s) ==
    LET signed == s # "" /\ Head(s) \in {"-", "+"}
        body   == IF signed THEN Tail(s) ELSE s
    IN  IF body = "" \/ ~AllDigits(body)
        THEN [ok |-> FALSE, v |-> 0]
        ELSE [ok |-> TRUE,
              v  |-> IF signed /\ Head(s) = "-" THEN 0 - DigitsToNat(body)
                     ELSE DigitsToNat(body)]

Min(a, b) == IF a < b THEN a ELSE b

Max(a, b) == IF a > b THEN a ELSE b

\* s[:k] with Python's slice semantics (negative k counts from the end)
PySliceTo(s, k) ==
    LET n == IF k >= 0 THEN Min(k, Len(s)) ELSE Max(Len(s) + k, 0)
    IN  SubSeq(s, 1, n)

\* s[k:] with Python's slice semantics
PySliceFrom(s, k) ==
    LET n == IF k >= 0 THEN Min(k, Len(s)) ELSE Max(Len(s) + k, 0)
    IN  SubSeq(s, n + 1, Len(s))

StartsWith(s, p) == Len(s) >= Len(p) /\ SubSeq(s, 1, Len(p)) = p

\* 1-based position of the first occurrence of sub in s, 0 when absent
\* (bytes.index raises ValueError, `in` is FALSE)
Find(s, sub) ==
    LET hits == {i \in 1..(Len(s) - Len(sub) + 1) :
                     SubSeq(s, i, i + Len(sub) - 1) = sub}
    IN  IF hits = {} THEN 0 ELSE CHOOSE i \in hits : \A j \in hits : i <= j

Lower == "abcdefghijklmnopqrstuvwxyz"

UpperCase == "ABCDEFGHIJKLMNOPQRSTUVWXYZ"

UpperChar(c) == LET i == Find(Lower, c)
                IN  IF i = 0 THEN c ELSE SubSeq(UpperCase, i, i)

RECURSIVE Upper(_)
Upper(s) == IF s = "" THEN "" ELSE UpperChar(Head(s)) \o Upper(Tail(s))

(***************************************************************************)
(* RESP encoder (resp.py).  A Python value is tagged with its type t: a    *)
(* str (field s), an int (field n), None, or a list (field l).             *)
(***************************************************************************)

StrItem(s) == [t |-> "str", s |-> s, n |-> 0, l |-> <<>>]

IntItem(n) == [t |-> "int", s |-> "", n |-> n, l |-> <<>>]

NoneItem == [t |-> "None", s |-> "", n |-> 0, l |-> <<>>]

ListItem(items) == [t |-> "list", s |-> "", n |-> 0, l |-> items]

StrItems(strings) == [i \in 1..Len(strings) |-> StrItem(strings[i])]

integer(n) == ":" \o IntToStr(n) \o CRLF

simple_string(string) == "+" \o string \o CRLF

simple_error(string) == "-ERR " \o string \o CRLF

bulk_string(item) ==
    IF item.t = "None" THEN "$-1" \o CRLF
    ELSE LET string == IF item.t = "int" THEN IntToStr(item.n) ELSE item.s
         IN  "$" \o IntToStr(Len(string)) \o CRLF \o string \o CRLF

RECURSIVE array(_)
RECURSIVE array_join(_)
array_join(items) ==
    IF items = <<>> THEN ""
    ELSE (IF Head(items).t = "list" THEN array(Head(items).l)
          ELSE bulk_string(Head(items)))
         \o array_join(Tail(items))

array(items) == "*" \o IntToStr(Len(items)) \o CRLF \o array_join(items)

\* resp.array applied to a command's list of strings (Command._pack)
_pack(strings) == array(StrItems(strings))

(***************************************************************************)
(* RESP decoder (resp.py).  A reader returns [ok, val, rest]; ok = FALSE   *)
(* is the exception the Python code raises (ValueError from index/int,     *)
(* AssertionError).                                                        *)
(***************************************************************************)

Raised == [ok |-> FALSE, val |-> "", rest |-> ""]

_read_token(buffer) ==
    LET sep == Find(buffer, CRLF)
    IN  IF sep = 0 THEN Raised
        ELSE [ok   |-> TRUE,
              val  |-> SubSeq(buffer, 1, sep - 1),
              rest |-> SubSeq(buffer, sep + 2, Len(buffer))]

_read_bulk_string(buffer) ==
    LET tok == _read_token(buffer)
        len == PyInt(Tail(tok.val))
    IN  IF ~tok.ok \/ ~StartsWith(tok.val, "$") \/ ~len.ok THEN Raised
        ELSE [ok   |-> TRUE,
              val  |-> PySliceTo(tok.rest, len.v),
              rest |-> PySliceFrom(tok.rest, len.v + 2)]

\* the loop `for i in range(length)` of _read_array
RECURSIVE _read_items(_, _, _)
_read_items(n, acc, buffer) ==
    IF n <= 0 THEN [ok |-> TRUE, val |-> acc, rest |-> buffer]
    ELSE LET s == _read_bulk_string(buffer)
         IN  IF ~s.ok THEN [ok |-> FALSE, val |-> <<>>, rest |-> ""]
             ELSE _read_items(n - 1, Append(acc, s.val), s.rest)

_read_array(buffer) ==
    LET tok == _read_token(Tail(buffer))
        len == PyInt(tok.val)
    IN  IF ~tok.ok \/ ~len.ok THEN [ok |-> FALSE, val |-> <<>>, rest |-> ""]
        ELSE _read_items(len.v, <<>>, tok.rest)

_read_rdb(buffer) ==
    LET tok == _read_token(buffer)
        len == PyInt(Tail(tok.val))
    IN  IF ~tok.ok \/ ~StartsWith(tok.val, "$") \/ ~len.ok THEN Raised
        ELSE [ok   |-> TRUE,
              val  |-> PySliceTo(tok.rest, len.v),
              rest |-> PySliceFrom(tok.rest, len.v)]

\* One resumption of the generator `parse`: it runs until it yields a
\* command ("cmd"), its buffer is empty ("end"), a reader raises ("raise",
\* Command.parse raising IndexError on an empty array included) or no branch
\* of the loop consumes the buffer, so that `while buffer` never ends
\* ("hang").  logged are the simple strings and RDB blobs it printed.
RECURSIVE parse_next(_, _)
parse_next(buffer, logged) ==
    IF buffer = "" THEN
        [kind |-> "end", cmd |-> <<>>, rest |-> "", logged |-> logged]
    ELSE IF StartsWith(buffer, "*") THEN
        LET a == _read_array(buffer)
        IN  IF ~a.ok \/ a.val = <<>>
            THEN [kind |-> "raise", cmd |-> <<>>, rest |-> buffer, logged |-> logged]
            ELSE [kind |-> "cmd", cmd |-> a.val, rest |-> a.rest, logged |-> logged]
    ELSE IF StartsWith(buffer, "+") THEN
        LET tok == _read_token(buffer)
        IN  IF ~tok.ok
            THEN [kind |-> "raise", cmd |-> <<>>, rest |-> buffer, logged |-> logged]
            ELSE parse_next(tok.rest, Append(logged, tok.val))
    ELSE IF Find(buffer, "REDIS") # 0 THEN
        LET rdb == _read_rdb(buffer)
        IN  IF ~rdb.ok
            THEN [kind |-> "raise", cmd |-> <<>>, rest |-> buffer, logged |-> logged]
            ELSE parse_next(rdb.rest, Append(logged, rdb.val))
    ELSE [kind |-> "hang", cmd |-> <<>>, rest |-> buffer, logged |-> logged]

\* list(parse(buffer)): every command the generator yields, and how it ends
RECURSIVE parse(_, _, _)
\* the generator goes on after p, one resumption of it
parse_on(p, cmds) ==
    IF p.kind = "cmd" THEN parse(p.rest, Append(cmds, p.cmd), p.logged)
    ELSE [kind |-> p.kind, cmds |-> cmds, rest |-> p.rest, logged |-> p.logged]

parse(buffer, cmds, logged) == parse_on(parse_next(buffer, logged), cmds)

(***************************************************************************)
(* Python's comparison of str: by code point, a proper prefix first.  Only *)
(* the characters of stream ids are ordered here.                          *)
(***************************************************************************)

\* the characters of ids in increasing code point order
IdChars == "$*+-0123456789"

Ord(c) == Find(IdChars, c)

RECURSIVE StrLess(_, _)
StrLess(a, b) ==
    IF b = "" THEN FALSE
    ELSE IF a = "" THEN TRUE
    ELSE IF Head(a) = Head(b) THEN StrLess(Tail(a), Tail(b))
    ELSE Ord(Head(a)) < Ord(Head(b))

StrLessEq(a, b) == a = b \/ StrLess(a, b)

(***************************************************************************)
(* Database (database.py): the store with lazy expiry                      *)
(***************************************************************************)

HasKey(st, key) == \E i \in 1..Len(st) : st[i].key = key

IndexOfKey(st, key) == CHOOSE i \in 1..Len(st) : st[i].key = key

\* Database.set: self.store[key] = (value, expiry)
set(st, key, value, expiry) ==
    LET item == [key |-> key, value |-> value, expiry |-> expiry]
    IN  IF HasKey(st, key) THEN [st EXCEPT ![IndexOfKey(st, key)] = item]
        ELSE Append(st, item)

RemoveAt(q, i) == SubSeq(q, 1, i - 1) \o SubSeq(q, i + 1, Len(q))

\* Database.get at time t: [value |-> None or Some(v), store |-> the store after]
get(st, key, t) ==
    IF ~HasKey(st, key) THEN [value |-> None, store |-> st]
    ELSE LET i == IndexOfKey(st, key)
         IN  IF Truthy(st[i].expiry) /\ t >= st[i].expiry[1]
             THEN [value |-> None, store |-> RemoveAt(st, i)]
             ELSE [value |-> Some(st[i].value), store |-> st]

\* self.store.keys()
keys(st) == [i \in 1..Len(st) |-> st[i].key]

(***************************************************************************)
(* Stream (stream.py)                                                      *)
(***************************************************************************)

\* id.split('-') of a well-formed id
IdTs(id) == SubSeq(id, 1, Find(id, "-") - 1)

IdSeq(id) == SubSeq(id, Find(id, "-") + 1, Len(id))

\* the number of digits that end at position n of s
RECURSIVE DigitRun(_, _)
DigitRun(s, n) ==
    IF n >= 1 /\ IsDigit(SubSeq(s, n, n)) THEN 1 + DigitRun(s, n - 1) ELSE 0

\* re.search(r'(\d*)-\*', id): None, or Some(group 1)
SearchAutoSeq(id) ==
    LET at == Find(id, "-*")
    IN  IF at = 0 THEN None
        ELSE Some(SubSeq(id, at - DigitRun(id, at - 1), at - 1))

\* self.store[key] of the defaultdict: the key is created on access
Touch(st, key) ==
    IF key \in DOMAIN st THEN st
    ELSE [k \in DOMAIN st \cup {key} |-> IF k = key THEN <<>> ELSE st[k]]

\* Stream.add at time t: [store |-> the store after, id |-> the id stored
\* (None when rejected), response |-> the reply]
add(st, key, entry, t) ==
    LET id      == entry.id
        st1     == Touch(st, key)
        entries == st1[key]
        last_entry_id == IF Len(entries) > 0
                         THEN Some(entries[Len(entries)].id) ELSE None
        last_ts  == IdTs(last_entry_id[1])
        last_seq == IdSeq(last_entry_id[1])
        auto     == SearchAutoSeq(id)
        rejected(msg) == [store |-> st1, id |-> None,
                          response |-> simple_error(msg)]
        stored(newid) ==
            [store |-> [st1 EXCEPT ![key] =
                            Append(@, [id |-> newid, fields |-> entry.fields])],
             id |-> Some(newid),
             response |-> bulk_string(StrItem(newid))]
    IN  IF id = "0-0" THEN
            rejected("The ID specified in XADD must be greater than 0-0")
        ELSE IF auto # None THEN
            LET ts == auto[1]
            IN  IF last_entry_id = None
                THEN stored(ts \o "-" \o (IF ts = "0" THEN "1" ELSE "0"))
                ELSE stored(ts \o "-" \o
                            (IF StrLess(last_ts, ts) THEN "0"
                             ELSE IntToStr(PyInt(last_seq).v + 1)))
        ELSE IF id = "*" THEN
            IF last_entry_id = None
            THEN stored(IntToStr(t) \o "-0")
            ELSE stored(last_ts \o "-" \o IntToStr(PyInt(last_seq).v + 1))
        ELSE IF last_entry_id # None /\ StrLessEq(id, last_entry_id[1]) THEN
            rejected("The ID specified in XADD is equal or smaller than the target stream top item")
        ELSE stored(id)

\* Stream.read: self.store.get(key)
read(st, key) == IF key \in DOMAIN st THEN Some(st[key]) ELSE None

\* the numeric value <<ms, seq>> of an id, and the numeric order of ids
IdNum(id) == <<PyInt(IdTs(id)).v, PyInt(IdSeq(id)).v>>

NumLess(a, b) ==
    \/ IdNum(a)[1] < IdNum(b)[1]
    \/ IdNum(a)[1] = IdNum(b)[1] /\ IdNum(a)[2] < IdNum(b)[2]

(***************************************************************************)
(* DatabaseMaster (database.py): replicas and triggers                     *)
(***************************************************************************)

RECURSIVE SumOf(_)
SumOf(q) == IF q = <<>> THEN 0 ELSE Head(q) + SumOf(Tail(q))

\* (a variant that counts the replicas beyond the offset only)
count_acks_beyond_offset(reps, master_offset) ==
    Cardinality({i \in 1..Len(reps) : reps[i].replication_offset > master_offset})

\* replication_count_acks_by_offset
replication_count_acks_by_offset(reps, master_offset) ==
    Cardinality({i \in 1..Len(reps) : reps[i].replication_offset >= master_offset})

NotSet(trigger) == ~trigger.set

\* DatabaseMaster.update_replica_offset for an ACK received on `port`:
\* [replicas, wait_triggers] after
update_replica_offset(reps, triggers, port, offset) ==
    LET kept  == SelectSeq(triggers, NotSet)
        reps1 == [i \in 1..Len(reps) |->
                    IF reps[i].port = port
                    THEN [reps[i] EXCEPT !.replication_offset = offset]
                    ELSE reps[i]]
        fired == [i \in 1..Len(kept) |->
                    IF replication_count_acks_by_offset(reps1, kept[i].master_offset)
                         >= kept[i].num_replicas
                    THEN [kept[i] EXCEPT !.set = TRUE]
                    ELSE kept[i]]
    IN  [replicas |-> reps1, wait_triggers |-> fired]

\* any(key == condition[0] and id > condition[1] for condition in ...)
Matches(trigger, key, id) ==
    \E i \in 1..Len(trigger.conditions) :
        /\ key = trigger.conditions[i][1]
        /\ StrLess(trigger.conditions[i][2], id)

\* DatabaseMaster.check_stream_triggers: stream_triggers after
check_stream_triggers(triggers, key, id) ==
    LET kept == SelectSeq(triggers, NotSet)
    IN  [i \in 1..Len(kept) |->
            IF Matches(kept[i], key, id) THEN [kept[i] EXCEPT !.set = TRUE]
            ELSE kept[i]]

\* app.utils.to_pairs: zip(array[:half], array[half:])
to_pairs(arr) ==
    LET half == Len(arr) \div 2
    IN  [i \in 1..half |-> <<arr[i], arr[half + i]>>]

(***************************************************************************)
(* The processes.  "M" is a DatabaseMaster; each replica is a              *)
(* DatabaseReplica.  A handler is one run of Database._handle_connection:  *)
(* c1, c2 serve clients of the master, d1 serves a client of replica R1,   *)
(* m1, m2 are the master's handlers of the connections the replicas open,  *)
(* and u1, u2 are the replicas' handlers of those same connections         *)
(* (DatabaseReplica.serve).  An endpoint is whatever reads a byte stream.  *)
(***************************************************************************)

Replicas == {"R1", "R2", "R3"}

Nodes == {"M"} \cup Replicas

Role(n) == IF n = "M" THEN "master" ELSE "slave"

MasterLink(r) == CASE r = "R1" -> "m1" [] r = "R2" -> "m2" [] r = "R3" -> "m3"

Upstream(r) == CASE r = "R1" -> "u1" [] r = "R2" -> "u2" [] r = "R3" -> "u3"

Clients == {"c1", "c2", "d1"}

Handlers == Clients \cup {MasterLink(r) : r \in Replicas}
                    \cup {Upstream(r) : r \in Replicas}

NodeOf(h) ==
    CASE h \in {"c1", "c2", "m1", "m2", "m3"} -> "M"
      [] h \in {"d1", "u1"} -> "R1"
      [] h = "u2" -> "R2"
      [] h = "u3" -> "R3"

\* the endpoint that reads what handler h writes
Peer(h) ==
    CASE h = "m1" -> "u1"
      [] h = "m2" -> "u2"
      [] h = "m3" -> "u3"
      [] h = "u1" -> "m1"
      [] h = "u2" -> "m2"
      [] h = "u3" -> "m3"
      [] h = "c1" -> "c1.client"
      [] h = "c2" -> "c2.client"
      [] h = "d1" -> "d1.client"

Endpoints == Handlers \cup {Peer(c) : c \in Clients}

(***************************************************************************)
(* State                                                                   *)
(***************************************************************************)

VARIABLES
    \* codec harness: a value, its encoding, and what parse made of it
    cval, cbytes, cresult, cpc,
    \* time.time() * 1000, shared by all processes
    now,
    \* Database.store of each node: an insertion-ordered dict, as a sequence
    \* of [key, value, expiry]
    store,
    \* Stream.store of each node: a function from the keys it holds to their
    \* entries, each entry [id, fields]
    streams,
    \* whether the node's event loop is stuck inside a callback for ever
    hung,
    \* DatabaseMaster fields
    master_repl_offset, replicas, wait_triggers, stream_triggers,
    \* the number of trigger objects created so far (object identity)
    ntrig,
    \* the master's propagate_command coroutines in progress, the number
    \* created so far, those the event loop is about to run, in order, and per
    \* endpoint those suspended in the drain of its writer, in order
    tasks, ntask, ready, waiters,
    \* per endpoint, whether the transport of the writer to it has paused
    \* writing (its buffer stands above the high-water mark)
    paused,
    \* DatabaseReplica.slave_repl_offset, and how far serve() has come
    slave_repl_offset, rstage,
    \* bytes written to each endpoint and not yet read, one element per write
    net,
    \* per handler: the unparsed rest of the buffer it read, where it stands,
    \* and the command it is suspended in
    hbuf, hpc, hctx,
    \* history: the frames whose propagation began, in order; per endpoint the
    \* propagations written to it; the last command completed; the number
    \* of buffers clients sent; per handler the commands that arrived, those
    \* dispatched and those completed, in order; per node and key the
    \* time at which the last SET said the key expires
    began, sentTo, last, sends, arrived, dispatched, completed, due

codecVars == <<cval, cbytes, cresult, cpc>>

dbVars == <<store, streams>>

loopVars == <<tasks, ntask, ready, waiters>>

masterVars == <<master_repl_offset, replicas, wait_triggers, stream_triggers,
                ntrig, loopVars>>

replicaVars == <<slave_repl_offset, rstage>>

handlerVars == <<net, hbuf, hpc, hctx>>

histVars == <<began, sentTo, last, sends, arrived, dispatched, completed, due>>

serverVars == <<now, dbVars, hung, paused, masterVars, replicaVars, handlerVars,
                histVars>>

vars == <<codecVars, serverVars>>

(***************************************************************************)
(* Handlers: Database._handle_connection, _handle_incoming and             *)
(* Command.execute.  An action is the code a handler runs between two of   *)
(* its suspension points: the read or drain it was suspended in returns,   *)
(* the generator `parse` is resumed for the next command, the command      *)
(* responds, and the handler suspends in the drain of its reply (or, with  *)
(* nothing to reply, is taken up again from there).                        *)
(***************************************************************************)

NoCtx == [tid |-> 0, array |-> <<>>, target |-> 0, seen |-> 0]

\* what is recorded of a completed command besides its reply: why a
\* blocking command returned, the number of replicas WAIT found at the
\* master's offset when it was dispatched, and for XADD the id stored (None
\* when rejected), the triggers that were awaited before it and the ones
\* it fired
NoNote == [why |-> "", seen |-> 0, stored |-> None, before |-> <<>>,
           fired |-> {}]

WaitNote(why, seen) == [NoNote EXCEPT !.why = why, !.seen = seen]

NoLast == [h |-> "", array |-> <<>>, response |-> "", time |-> 0,
           note |-> NoNote]

\* a replica serves connections once its handshake is over
NodeUp(n) == IF n = "M" THEN TRUE ELSE rstage[n] = 5

\* a handler that is going through the commands of one buffer: between two
\* of them it awaits nothing that suspends it
MidBuffer(h) == hpc[h] = "run" /\ hbuf[h] # ""

\* the event loop of node n can run a callback: it is not stuck, and no
\* handler other than h holds it
LoopFree(n, h) ==
    /\ ~hung[n]
    /\ \A g \in Handlers \ {h} : NodeOf(g) = n => ~MidBuffer(g)

\* a handler that has used up its buffer awaits reader.read, and the event
\* loop resumes it only after the callbacks that were scheduled before the
\* bytes came in: the tasks the handler itself created have started.
\* Between two commands of one buffer the handler does not yield, and they
\* have not.
OwnTasksStarted(h) ==
    hbuf[h] # "" \/ \A k \in 1..Len(tasks) : ~(tasks[k].by = h /\ tasks[k].pid = 0)

\* (a variant in which execute is not awaited: the handler goes on to the
\* next command while the last one is suspended)
ReadyWhileSuspended(h) ==
    /\ NodeUp(NodeOf(h))
    /\ LoopFree(NodeOf(h), h)
    /\ hpc[h] \in {"run", "wait", "xread"}
    /\ hbuf[h] # "" \/ net[h] # <<>>
    /\ OwnTasksStarted(h)

Ready(h) ==
    /\ NodeUp(NodeOf(h))
    /\ LoopFree(NodeOf(h), h)
    /\ hpc[h] = "run"
    /\ hbuf[h] # "" \/ net[h] # <<>>
    /\ OwnTasksStarted(h)

\* the generator resumed on the rest of the buffer, or on the next read
Fetch(h) == parse_next(IF hbuf[h] # "" THEN hbuf[h] ELSE Head(net[h]), <<>>)

\* what the generator yielded is a command of this name
Yields(f, name) == f.kind = "cmd" /\ Upper(f.cmd[1]) = name

AfterRead(h) == IF hbuf[h] # "" THEN net ELSE [net EXCEPT ![h] = Tail(@)]

\* writer.write of each <<endpoint, bytes>> of writes, in order
RECURSIVE Written(_, _)
Written(n, writes) ==
    IF writes = <<>> THEN n
    ELSE Written([n EXCEPT ![Head(writes)[1]] = Append(@, Head(writes)[2])],
                 Tail(writes))

ReplyOf(h, response) ==
    IF response = "" THEN <<>> ELSE << <<Peer(h), response>> >>

\* (a variant in which a replica counts the items of the command)
CompletedByItems(h, arr, response, note) ==
    /\ slave_repl_offset' =
          IF Role(NodeOf(h)) = "slave"
          THEN [slave_repl_offset EXCEPT ![NodeOf(h)] = @ + Len(arr)]
          ELSE slave_repl_offset
    /\ last' = [h |-> h, array |-> arr, response |-> response, time |-> now,
                note |-> note]
    /\ completed' = [completed EXCEPT ![h] = Append(@, arr)]

\* Command.execute after _respond: on a replica the offset grows by the
\* length of the re-encoded command, then the response, if any, is written
Completed(h, arr, response, note) ==
    /\ slave_repl_offset' =
          IF Role(NodeOf(h)) = "slave"
          THEN [slave_repl_offset EXCEPT ![NodeOf(h)] = @ + Len(_pack(arr))]
          ELSE slave_repl_offset
    /\ last' = [h |-> h, array |-> arr, response |-> response, time |-> now,
                note |-> note]
    /\ completed' = [completed EXCEPT ![h] = Append(@, arr)]

\* parse yielded a command and execute was called on it
Dispatched(h, f) == dispatched' = [dispatched EXCEPT ![h] = Append(@, f.cmd)]

\* a command that responds without suspending
Executed(h, f, response) ==
    /\ Dispatched(h, f)
    /\ hbuf' = [hbuf EXCEPT ![h] = f.rest]
    /\ net' = Written(AfterRead(h), ReplyOf(h, response))
    /\ Completed(h, f.cmd, response, NoNote)
    /\ UNCHANGED <<hpc, hctx>>

\* an exception leaves _respond: the handler's task ends, its buffer is lost
Crashed(h, f) ==
    /\ hbuf' = [hbuf EXCEPT ![h] = ""]
    /\ net' = AfterRead(h)
    /\ hpc' = [hpc EXCEPT ![h] = "dead"]
    /\ IF f.kind = "cmd" THEN Dispatched(h, f) ELSE UNCHANGED dispatched
    /\ UNCHANGED <<hctx, slave_repl_offset, last, completed>>

\* what no handler changes
quiet == <<codecVars, now, hung, paused, rstage, sends, arrived>>

\* resp.error_unknown_command
RECURSIVE JoinSpace(_)
JoinSpace(arr) ==
    IF Len(arr) = 0 THEN ""
    ELSE IF Len(arr) = 1 THEN arr[1]
    ELSE arr[1] \o " " \o JoinSpace(Tail(arr))

error_unknown_command(arr) == simple_error("Unknown command " \o JoinSpace(arr))

\* the generator ends: the buffer held no (further) command
ParseEnds(h) ==
    /\ Ready(h)
    /\ \E f \in {Fetch(h)} : f.kind = "end"
    /\ hbuf' = [hbuf EXCEPT ![h] = ""]
    /\ net' = AfterRead(h)
    /\ UNCHANGED <<quiet, dbVars, masterVars, slave_repl_offset, hpc, hctx,
                   began, sentTo, last, dispatched, completed, due>>

\* a reader raises: the exception ends the handler's task
ParseRaises(h) ==
    /\ Ready(h)
    /\ \E f \in {Fetch(h)} : f.kind = "raise" /\ Crashed(h, f)
    /\ UNCHANGED <<quiet, dbVars, masterVars, began, sentTo, due>>

\* no branch of parse's loop consumes the buffer: `while buffer` spins for
\* ever inside the event loop's only thread
ParseHangs(h) ==
    /\ Ready(h)
    /\ \E f \in {Fetch(h)} :
         /\ f.kind = "hang"
         /\ hbuf' = [hbuf EXCEPT ![h] = f.rest]
    /\ hung' = [hung EXCEPT ![NodeOf(h)] = TRUE]
    /\ net' = AfterRead(h)
    /\ UNCHANGED <<codecVars, now, paused, rstage, sends, dbVars, masterVars,
                   slave_repl_offset, hpc, hctx, began, sentTo, last, arrived,
                   dispatched, completed, due>>

CommandPing(h) ==
    /\ Ready(h)
    /\ \E f \in {Fetch(h)} :
         /\ Yields(f, "PING")
         /\ Executed(h, f, IF Role(NodeOf(h)) = "master" THEN simple_string("PONG") ELSE "")
    /\ UNCHANGED <<quiet, dbVars, masterVars, began, sentTo, due>>

CommandEcho(h) ==
    /\ Ready(h)
    /\ \E f \in {Fetch(h)} :
         /\ Yields(f, "ECHO")
         /\ IF Len(f.cmd) < 2 THEN Crashed(h, f)
            ELSE Executed(h, f, bulk_string(StrItem(f.cmd[2])))
    /\ UNCHANGED <<quiet, dbVars, masterVars, began, sentTo, due>>

\* a propagate_command coroutine: the number of the propagation it is
\* (0 until it starts), the replica of the list in whose drain it is
\* suspended (0 when in none), the handler that awaits it, if any, and the
\* handler that created it
NewTask(id, frame, by) ==
    [id |-> id, frame |-> frame, pid |-> 0, at |-> 0, owner |-> "", by |-> by]

CommandSet(h) ==
    /\ Ready(h)
    /\ \E f \in {Fetch(h)} :
         /\ Yields(f, "SET")
         /\ LET arr == f.cmd
                n   == NodeOf(h)
                has_px == Len(arr) = 5 /\ Upper(arr[4]) = "PX"
            IN  IF Len(arr) < 3 \/ (has_px /\ ~PyInt(arr[5]).ok)
                THEN Crashed(h, f) /\ UNCHANGED <<store, loopVars, due>>
                ELSE LET px     == IF has_px THEN Some(PyInt(arr[5]).v) ELSE None
                         \* expiry = px and (time.time() * 1000 + px)
                         expiry == IF Truthy(px) THEN Some(now + px[1]) ELSE px
                     IN  /\ store' = [store EXCEPT ![n] = set(@, arr[2], arr[3], expiry)]
                         /\ due' = [due EXCEPT ![n] =
                                      set(@, arr[2], arr[3],
                                          IF has_px THEN Some(now + px[1]) ELSE None)]
                         /\ IF Role(n) = "master"
                            THEN /\ tasks' = Append(tasks, NewTask(ntask + 1, _pack(arr), h))
                                 /\ ntask' = ntask + 1
                                 /\ ready' = Append(ready, ntask + 1)
                                 /\ UNCHANGED waiters
                                 /\ Executed(h, f, simple_string("OK"))
                            ELSE /\ UNCHANGED loopVars
                                 /\ Executed(h, f, "")
    /\ UNCHANGED <<quiet, streams, master_repl_offset, replicas, wait_triggers,
                   stream_triggers, ntrig, began, sentTo>>

CommandGet(h) ==
    /\ Ready(h)
    /\ \E f \in {Fetch(h)} :
         /\ Yields(f, "GET")
         /\ IF Len(f.cmd) < 2 THEN Crashed(h, f) /\ UNCHANGED store
            ELSE LET g == get(store[NodeOf(h)], f.cmd[2], now)
                 IN  /\ store' = [store EXCEPT ![NodeOf(h)] = g.store]
                     /\ Executed(h, f, bulk_string(IF g.value = None THEN NoneItem
                                                ELSE StrItem(g.value[1])))
    /\ UNCHANGED <<quiet, streams, masterVars, began, sentTo, due>>

CommandKeys(h) ==
    /\ Ready(h)
    /\ \E f \in {Fetch(h)} :
         /\ Yields(f, "KEYS")
         /\ Executed(h, f, array(StrItems(keys(store[NodeOf(h)]))))
    /\ UNCHANGED <<quiet, dbVars, masterVars, began, sentTo, due>>

CommandUnknown(h) ==
    /\ Ready(h)
    /\ \E f \in {Fetch(h)} :
         /\ f.kind = "cmd"
         /\ Upper(f.cmd[1]) \notin
              {"PING", "ECHO", "SET", "GET", "CONFIG", "KEYS", "INFO", "REPLCONF",
               "PSYNC", "WAIT", "TYPE", "XADD", "XRANGE", "XREAD"}
         /\ Executed(h, f, error_unknown_command(f.cmd))
    /\ UNCHANGED <<quiet, dbVars, masterVars, began, sentTo, due>>

(***************************************************************************)
(* Replication: master side                                                *)
(***************************************************************************)

\* random_string(40), fixed at start
master_replid == "0123456789abcdefghijABCDEFGHIJ0123456789"

\* the 88 bytes of base64.b64decode(RDB_BASE64): "REDIS0011" and 79 more
RDB_BYTES ==
    "REDIS0011" \o "..............................................................................."

get_ack == _pack(<<"REPLCONF", "GETACK", "*">>)

\* the reply of this master to PSYNC, followed by the RDB file
FullResync(offset) ==
    simple_string("FULLRESYNC " \o master_replid \o " " \o IntToStr(offset))
      \o "$" \o IntToStr(Len(RDB_BYTES)) \o CRLF \o RDB_BYTES

\* the replicas in the registry whose ACKed offset has reached `offset`
AtOffset(reps, offset) ==
    {i \in 1..Len(reps) : ~(reps[i].replication_offset < offset)}

CommandReplConf(h) ==
    /\ Ready(h)
    /\ \E f \in {Fetch(h)} :
         /\ Yields(f, "REPLCONF")
         /\ LET arr == f.cmd
                n   == NodeOf(h)
                sub == Upper(arr[2])
            IN  IF Len(arr) < 2 THEN
                    Crashed(h, f) /\ UNCHANGED <<replicas, wait_triggers>>
                ELSE IF sub \in {"LISTENING-PORT", "CAPA"} THEN
                    Executed(h, f, simple_string("OK")) /\ UNCHANGED <<replicas, wait_triggers>>
                ELSE IF sub = "GETACK" THEN
                    /\ Executed(h, f, IF Role(n) = "slave"
                                   THEN array(<<StrItem("REPLCONF"), StrItem("ACK"),
                                                IntItem(slave_repl_offset[n])>>)
                                   ELSE "")
                    /\ UNCHANGED <<replicas, wait_triggers>>
                ELSE IF sub = "ACK" THEN
                    IF Role(n) # "master" THEN
                        Executed(h, f, "") /\ UNCHANGED <<replicas, wait_triggers>>
                    ELSE IF Len(arr) < 3 \/ ~PyInt(arr[3]).ok THEN
                        Crashed(h, f) /\ UNCHANGED <<replicas, wait_triggers>>
                    ELSE LET u == update_replica_offset(replicas, wait_triggers, h,
                                                        PyInt(arr[3]).v)
                         IN  /\ replicas' = u.replicas
                             /\ wait_triggers' = u.wait_triggers
                             /\ Executed(h, f, "")
                ELSE Executed(h, f, error_unknown_command(arr))
                     /\ UNCHANGED <<replicas, wait_triggers>>
    /\ UNCHANGED <<quiet, dbVars, master_repl_offset, stream_triggers, ntrig,
                   loopVars, began, sentTo, due>>

\* DatabaseMaster.register_replica: a ReplicaConnection of the handler's
\* connection, identified by its peer port, with replication_offset 0
register_replica(reps, h) == Append(reps, [port |-> h, replication_offset |-> 0])

CommandPSync(h) ==
    /\ Ready(h)
    /\ \E f \in {Fetch(h)} :
         /\ Yields(f, "PSYNC")
         /\ IF Role(NodeOf(h)) = "master"
            THEN /\ replicas' = register_replica(replicas, h)
                 /\ Executed(h, f, FullResync(master_repl_offset))
            ELSE \* a DatabaseReplica has no master_replid: AttributeError
                 Crashed(h, f) /\ UNCHANGED replicas
    /\ UNCHANGED <<quiet, dbVars, master_repl_offset, wait_triggers,
                   stream_triggers, ntrig, loopVars, began, sentTo, due>>

\* (a variant that leaves the offset alone for REPLCONF GETACK)
StartPropagationOfWrites(frame) ==
    /\ master_repl_offset' =
          master_repl_offset + (IF frame = get_ack THEN 0 ELSE Len(frame))
    /\ began' = Append(began, frame)

\* the first line of propagate_command: the offset grows by the length of
\* the frame
StartPropagation(frame) ==
    /\ master_repl_offset' = master_repl_offset + Len(frame)
    /\ began' = Append(began, frame)

\* the loop of propagate_command from the j-th replica of the list on:
\* write, then drain, which suspends the coroutine only when the transport
\* has paused writing.  `at` is the replica in whose drain the coroutine is
\* suspended, 0 when the loop has ended; n and sent are net and sentTo after.
\* On a connection that was closed the transport drops the write and drain
\* raises ConnectionResetError: `at` is then -1.
RECURSIVE propagate_from(_, _, _, _, _)
propagate_from(j, frame, pid, n, sent) ==
    IF j > Len(replicas) THEN [at |-> 0, net |-> n, sentTo |-> sent]
    ELSE IF hpc[replicas[j].port] = "closed"
         THEN [at |-> -1, net |-> n, sentTo |-> sent]
    ELSE IF paused[Peer(replicas[j].port)]
         THEN [at |-> j,
               net |-> [n EXCEPT ![Peer(replicas[j].port)] = Append(@, frame)],
               sentTo |-> [sent EXCEPT ![Peer(replicas[j].port)] = Append(@, pid)]]
         ELSE propagate_from(j + 1, frame, pid,
                  [n EXCEPT ![Peer(replicas[j].port)] = Append(@, frame)],
                  [sent EXCEPT ![Peer(replicas[j].port)] = Append(@, pid)])

\* the event loop runs the coroutine it is to run next, tasks[k], as far as
\* r says: the coroutine ends, and the WAIT that awaited it goes on to await
\* its trigger, or it is suspended in a drain, or drain raises, which ends
\* the task, or the handler of the WAIT that awaited it
RunNext(k, pid, r) ==
    /\ net' = r.net
    /\ sentTo' = r.sentTo
    /\ ready' = Tail(ready)
    /\ IF r.at <= 0
       THEN /\ tasks' = RemoveAt(tasks, k)
            /\ hpc' = IF tasks[k].owner = "" THEN hpc
                      ELSE [hpc EXCEPT ![tasks[k].owner] =
                              IF r.at = 0 THEN "wait" ELSE "dead"]
            /\ UNCHANGED waiters
       ELSE /\ tasks' = [tasks EXCEPT ![k].at = r.at, ![k].pid = pid]
            /\ waiters' = [waiters EXCEPT ![Peer(replicas[r.at].port)] =
                             Append(@, tasks[k].id)]
            /\ UNCHANGED hpc
    /\ UNCHANGED ntask

\* a background task created by SET starts
PropagateStart(k) ==
    /\ LoopFree("M", "")
    /\ ready # <<>>
    /\ tasks[k].id = Head(ready)
    /\ tasks[k].pid = 0
    /\ StartPropagation(tasks[k].frame)
    /\ \E r \in {propagate_from(1, tasks[k].frame, Len(began) + 1, net, sentTo)} :
          RunNext(k, Len(began) + 1, r)
    /\ UNCHANGED <<quiet, dbVars, replicas, wait_triggers, stream_triggers,
                   ntrig, slave_repl_offset, hbuf, hctx, last, dispatched,
                   completed, due>>

\* a coroutine woken from a drain goes on with the next replica of the list
\* as it is now
PropagateResume(k) ==
    /\ LoopFree("M", "")
    /\ ready # <<>>
    /\ tasks[k].id = Head(ready)
    /\ tasks[k].pid > 0
    /\ \E r \in {propagate_from(tasks[k].at + 1, tasks[k].frame, tasks[k].pid,
                                net, sentTo)} :
          RunNext(k, tasks[k].pid, r)
    /\ UNCHANGED <<quiet, dbVars, master_repl_offset, replicas, wait_triggers,
                   stream_triggers, ntrig, slave_repl_offset, hbuf, hctx,
                   began, last, dispatched, completed, due>>

\* FlowControlMixin.pause_writing, called by the transport when a write
\* leaves its buffer above the high-water mark: the peer reads too slowly
PauseWriting(e) ==
    /\ ~paused[e]
    /\ paused' = [paused EXCEPT ![e] = TRUE]
    /\ UNCHANGED <<codecVars, now, hung, dbVars, masterVars, replicaVars,
                   handlerVars, histVars>>

\* FlowControlMixin.resume_writing: the coroutines suspended in the drain of
\* this writer are woken in the order in which they were suspended
ResumeWriting(e) ==
    /\ LoopFree("M", "")
    /\ paused[e]
    /\ paused' = [paused EXCEPT ![e] = FALSE]
    /\ ready' = ready \o waiters[e]
    /\ waiters' = [waiters EXCEPT ![e] = <<>>]
    /\ UNCHANGED <<codecVars, now, hung, dbVars, master_repl_offset, replicas,
                   wait_triggers, stream_triggers, ntrig, tasks, ntask,
                   replicaVars, handlerVars, histVars>>

CommandWait(h) ==
    /\ Ready(h)
    /\ \E f \in {Fetch(h)} :
         /\ Yields(f, "WAIT")
         /\ LET arr == f.cmd
                num_replicas  == PyInt(arr[2]).v
                master_offset == master_repl_offset
                ack_replicas  == replication_count_acks_by_offset(replicas, master_offset)
                seen    == Cardinality(AtOffset(replicas, master_repl_offset))
                trigger == [tid |-> ntrig + 1, num_replicas |-> num_replicas,
                            master_offset |-> master_offset, set |-> FALSE]
                suspended(pc) ==
                    /\ Dispatched(h, f)
                    /\ hbuf' = [hbuf EXCEPT ![h] = IF pc = "dead" THEN "" ELSE f.rest]
                    /\ hpc' = [hpc EXCEPT ![h] = pc]
                    /\ hctx' = [hctx EXCEPT ![h] =
                                  [tid |-> trigger.tid, array |-> arr,
                                   target |-> master_offset, seen |-> seen]]
                    /\ UNCHANGED <<slave_repl_offset, last, completed>>
                replied(why) ==
                    /\ Dispatched(h, f)
                    /\ hbuf' = [hbuf EXCEPT ![h] = f.rest]
                    /\ net' = Written(AfterRead(h), ReplyOf(h, integer(ack_replicas)))
                    /\ Completed(h, arr, integer(ack_replicas), WaitNote(why, seen))
                    /\ UNCHANGED <<hpc, hctx, master_repl_offset, loopVars,
                                   began, sentTo>>
            IN  IF Role(NodeOf(h)) # "master" THEN
                    /\ Executed(h, f, "")
                    /\ UNCHANGED <<master_repl_offset, wait_triggers, ntrig,
                                   loopVars, began, sentTo>>
                ELSE IF Len(arr) # 3 \/ ~PyInt(arr[2]).ok \/ ~PyInt(arr[3]).ok THEN
                    /\ Crashed(h, f)
                    /\ UNCHANGED <<master_repl_offset, wait_triggers, ntrig,
                                   loopVars, began, sentTo>>
                ELSE IF ack_replicas >= num_replicas THEN
                    /\ replied("at once")
                    /\ UNCHANGED <<wait_triggers, ntrig>>
                ELSE
                    /\ wait_triggers' = Append(wait_triggers, trigger)
                    /\ ntrig' = ntrig + 1
                    /\ IF master_offset > 0 THEN
                           \* await propagate_command(get_ack), run by the
                           \* handler itself up to its first suspension
                           /\ StartPropagation(get_ack)
                           /\ \E r \in {propagate_from(1, get_ack, Len(began) + 1,
                                                       AfterRead(h), sentTo)} :
                                /\ net' = r.net
                                /\ sentTo' = r.sentTo
                                /\ IF r.at = 0
                                   THEN /\ suspended("wait")
                                        /\ UNCHANGED loopVars
                                   ELSE IF r.at < 0
                                   THEN /\ suspended("dead")
                                        /\ UNCHANGED loopVars
                                   ELSE /\ suspended("propagate")
                                        /\ tasks' = Append(tasks,
                                              [id |-> ntask + 1, frame |-> get_ack,
                                               pid |-> Len(began) + 1, at |-> r.at,
                                               owner |-> h, by |-> h])
                                        /\ ntask' = ntask + 1
                                        /\ waiters' =
                                              [waiters EXCEPT
                                                 ![Peer(replicas[r.at].port)] =
                                                     Append(@, ntask + 1)]
                                        /\ UNCHANGED ready
                       ELSE replied("offset 0")
    /\ UNCHANGED <<quiet, dbVars, replicas, stream_triggers, due>>

\* whether the event of the trigger a handler awaits is set: a trigger no
\* longer in the list was set before it was filtered out
EventSet(triggers, tid) ==
    \A i \in 1..Len(triggers) : triggers[i].tid = tid => triggers[i].set

\* the rest of CommandWait._respond, once wait_for has returned
WaitReturns(h, why) ==
    LET ack_replicas ==
            replication_count_acks_by_offset(replicas, hctx[h].target)
    IN  /\ net' = Written(net, ReplyOf(h, integer(ack_replicas)))
        /\ Completed(h, hctx[h].array, integer(ack_replicas),
                     WaitNote(why, hctx[h].seen))
        /\ hpc' = [hpc EXCEPT ![h] = "run"]
        /\ hctx' = [hctx EXCEPT ![h] = NoCtx]
        /\ UNCHANGED <<quiet, dbVars, masterVars, hbuf, began, sentTo,
                       dispatched, due>>

WaitTriggered(h) ==
    /\ LoopFree(NodeOf(h), "")
    /\ hpc[h] = "wait"
    /\ EventSet(wait_triggers, hctx[h].tid)
    /\ WaitReturns(h, "event")

WaitTimedOut(h) ==
    /\ LoopFree(NodeOf(h), "")
    /\ hpc[h] = "wait"
    /\ WaitReturns(h, "timeout")

\* the peer closed the connection: read returns b'', the loop of
\* _handle_connection ends and the handler closes its writer
ConnectionClosed(h) ==
    /\ LoopFree(NodeOf(h), "")
    /\ hpc[h] = "run"
    /\ hbuf[h] = ""
    /\ net[h] = <<>>
    /\ ~paused[Peer(h)]
    /\ waiters[Peer(h)] = <<>>
    /\ hpc' = [hpc EXCEPT ![h] = "closed"]
    /\ UNCHANGED <<quiet, dbVars, masterVars, slave_repl_offset, net, hbuf,
                   hctx, began, sentTo, last, dispatched, completed, due>>

(***************************************************************************)
(* Replication: replica side (DatabaseReplica.serve and _handshake)        *)
(***************************************************************************)

\* args.port of the replica
PortOf(r) == CASE r = "R1" -> "6380" [] r = "R2" -> "6381" [] r = "R3" -> "6382"

\* the k-th command of _handshake
HandshakeCommand(r, k) ==
    CASE k = 1 -> <<"ping">>
      [] k = 2 -> <<"REPLCONF", "listening-port", PortOf(r)>>
      [] k = 3 -> <<"REPLCONF", "capa", "psync2">>
      [] k = 4 -> <<"PSYNC", "?", "-1">>

\* the replica starts: open_connection, and the first _send_command writes
ReplicaConnect(r) ==
    /\ rstage[r] = 0
    /\ rstage' = [rstage EXCEPT ![r] = 1]
    /\ net' = Written(net, << <<MasterLink(r), _pack(HandshakeCommand(r, 1))>> >>)
    /\ UNCHANGED <<codecVars, now, hung, paused, sends, dbVars, masterVars,
                   slave_repl_offset, hbuf, hpc, hctx, began, sentTo, last,
                   arrived, dispatched, completed, due>>

\* _recv_response: one read, handed to _handle_incoming; then the next
\* _send_command, or after PSYNC's response the task that handles the
\* connection.  The responses of this master hold no command.
HandshakeRecv(r) ==
    /\ rstage[r] \in 1..4
    /\ LoopFree(r, "")
    /\ net[Upstream(r)] # <<>>
    /\ \E res \in {parse(Head(net[Upstream(r)]), <<>>, <<>>)} :
       LET got == [net EXCEPT ![Upstream(r)] = Tail(@)]
       IN  /\ res.cmds = <<>>
           /\ res.kind \in {"end", "hang"}
           /\ IF res.kind = "hang"
              THEN /\ hung' = [hung EXCEPT ![r] = TRUE]
                   /\ net' = got
                   /\ UNCHANGED <<rstage, hpc>>
              ELSE /\ UNCHANGED hung
                   /\ rstage' = [rstage EXCEPT ![r] = @ + 1]
                   /\ IF rstage[r] < 4
                      THEN /\ net' = Written(got,
                                 << <<MasterLink(r),
                                      _pack(HandshakeCommand(r, rstage[r] + 1))>> >>)
                           /\ UNCHANGED hpc
                      ELSE /\ net' = got
                           /\ hpc' = [hpc EXCEPT ![Upstream(r)] = "run"]
    /\ UNCHANGED <<codecVars, now, paused, sends, dbVars, masterVars,
                   slave_repl_offset, hbuf, hctx, began, sentTo, last,
                   arrived, dispatched, completed, due>>

(***************************************************************************)
(* Streams: XADD and XREAD                                                 *)
(***************************************************************************)

\* id.split('-') yields the two parts the code unpacks, the second an int
WellFormedId(id) ==
    /\ Find(id, "-") # 0
    /\ Find(IdSeq(id), "-") = 0
    /\ PyInt(IdSeq(id)).ok

\* app.utils.inc_id
inc_id(id) == IdTs(id) \o "-" \o IntToStr(PyInt(IdSeq(id)).v + 1)

\* Stream.range over the entries of an existing key
range(entries, start, end) ==
    LET test(entry) ==
            /\ start = "-" \/ StrLessEq(start, entry.id)
            /\ end = "+" \/ StrLessEq(entry.id, end)
    IN  SelectSeq(entries, test)

EntryItem(entry) ==
    ListItem(<<StrItem(entry.id), ListItem(StrItems(entry.fields))>>)

EntryItems(entries) == [i \in 1..Len(entries) |-> EntryItem(entries[i])]

\* CommandXRread._read: [ok |-> FALSE] when inc_id or range raises (an id
\* that does not split, a key the store does not hold)
_read(st, request) ==
    LET pairs == to_pairs(request)
        found(i) == range(st[pairs[i][1]], inc_id(pairs[i][2]), "+")
        result == [i \in 1..Len(pairs) |->
                     ListItem(<<StrItem(pairs[i][1]), ListItem(EntryItems(found(i)))>>)]
        is_empty == \A i \in 1..Len(pairs) : Len(found(i)) = 0
    IN  IF \E i \in 1..Len(pairs) :
              ~WellFormedId(pairs[i][2]) \/ pairs[i][1] \notin DOMAIN st
        THEN [ok |-> FALSE, response |-> ""]
        ELSE [ok |-> TRUE,
              response |-> IF is_empty THEN bulk_string(NoneItem) ELSE array(result)]

\* CommandXRread._replace_dollars, pair number i (from 0) onward: the pairs
\* are those of the array as it was received
RECURSIVE replace_from(_, _, _, _)
replace_from(arr, pairs, i, st) ==
    IF i >= Len(pairs) THEN arr
    ELSE IF pairs[i + 1][2] # "$" THEN replace_from(arr, pairs, i + 1, st)
    ELSE LET entries == st[pairs[i + 1][1]]
             last_id == IF Len(entries) = 0 THEN "0-0"
                        ELSE entries[Len(entries)].id
         IN  replace_from([arr EXCEPT ![4 + 2 * i + 1 + 1] = last_id],
                          pairs, i + 1, st)

_replace_dollars(arr, st) ==
    replace_from(arr, to_pairs(SubSeq(arr, 5, Len(arr))), 0, st)

\* whether _replace_dollars raises: len(None) for a `$` on a missing key
DollarOnMissingKey(arr, st) ==
    LET pairs == to_pairs(SubSeq(arr, 5, Len(arr)))
    IN  \E i \in 1..Len(pairs) : pairs[i][2] = "$" /\ pairs[i][1] \notin DOMAIN st

\* the triggers of the list that a suspended XREAD BLOCK awaits and that are
\* not set
Awaited(triggers) ==
    LET awaited(trigger) ==
            /\ ~trigger.set
            /\ \E h \in Handlers : hpc[h] = "xread" /\ hctx[h].tid = trigger.tid
    IN  SelectSeq(triggers, awaited)

SetTids(triggers) == {triggers[i].tid : i \in {j \in 1..Len(triggers) : triggers[j].set}}

CommandXAdd(h) ==
    /\ Ready(h)
    /\ \E f \in {Fetch(h)} :
         /\ Yields(f, "XADD")
         /\ LET arr == f.cmd
                n   == NodeOf(h)
            IN  IF Len(arr) < 3 \/ Role(n) # "master"
                THEN \* a DatabaseReplica has no check_stream_triggers
                     Crashed(h, f) /\ UNCHANGED <<streams, stream_triggers>>
                ELSE LET key     == arr[2]
                         id      == arr[3]
                         entry   == [id |-> id, fields |-> SubSeq(arr, 4, Len(arr))]
                         checked == check_stream_triggers(stream_triggers, key, id)
                         added   == add(streams[n], key, entry, now)
                     IN  /\ stream_triggers' = checked
                         /\ streams' = [streams EXCEPT ![n] = added.store]
                         /\ Dispatched(h, f)
                         /\ hbuf' = [hbuf EXCEPT ![h] = f.rest]
                         /\ net' = Written(AfterRead(h), ReplyOf(h, added.response))
                         /\ Completed(h, arr, added.response,
                                      [NoNote EXCEPT !.stored = added.id,
                                                     !.before = Awaited(stream_triggers),
                                                     !.fired = SetTids(checked)
                                                               \ SetTids(stream_triggers)])
                         /\ UNCHANGED <<hpc, hctx>>
    /\ UNCHANGED <<quiet, store, master_repl_offset, replicas, wait_triggers,
                   ntrig, loopVars, began, sentTo, due>>

CommandXRread(h) ==
    /\ Ready(h)
    /\ \E f \in {Fetch(h)} :
         /\ Yields(f, "XREAD")
         /\ LET arr == f.cmd
                n   == NodeOf(h)
                sub == Upper(arr[2])
            IN  IF Len(arr) < 2 THEN
                    Crashed(h, f) /\ UNCHANGED <<stream_triggers, ntrig>>
                ELSE IF sub = "STREAMS" THEN
                    LET r == _read(streams[n], SubSeq(arr, 3, Len(arr)))
                    IN  /\ IF r.ok THEN Executed(h, f, r.response) ELSE Crashed(h, f)
                        /\ UNCHANGED <<stream_triggers, ntrig>>
                ELSE IF sub = "BLOCK" THEN
                    IF \/ DollarOnMissingKey(arr, streams[n])
                       \/ Role(n) # "master"
                       \/ Len(arr) < 3 \/ ~PyInt(arr[3]).ok
                    THEN Crashed(h, f) /\ UNCHANGED <<stream_triggers, ntrig>>
                    ELSE LET replaced == _replace_dollars(arr, streams[n])
                             trigger  == [tid |-> ntrig + 1,
                                          conditions |->
                                             to_pairs(SubSeq(replaced, 5, Len(replaced))),
                                          set |-> FALSE]
                         IN  /\ stream_triggers' = Append(stream_triggers, trigger)
                             /\ ntrig' = ntrig + 1
                             /\ Dispatched(h, f)
                             /\ hbuf' = [hbuf EXCEPT ![h] = f.rest]
                             /\ net' = AfterRead(h)
                             /\ hpc' = [hpc EXCEPT ![h] = "xread"]
                             /\ hctx' = [hctx EXCEPT ![h] =
                                           [NoCtx EXCEPT !.tid = trigger.tid,
                                                         !.array = replaced]]
                             /\ UNCHANGED <<slave_repl_offset, last, completed>>
                ELSE Executed(h, f, "") /\ UNCHANGED <<stream_triggers, ntrig>>
    /\ UNCHANGED <<quiet, dbVars, master_repl_offset, replicas, wait_triggers,
                   loopVars, began, sentTo, due>>

\* the rest of CommandXRread._respond, once wait_for has returned
XReadReturns(h, why) ==
    LET arr == hctx[h].array
        r   == _read(streams[NodeOf(h)], SubSeq(arr, 5, Len(arr)))
    IN  /\ IF r.ok
           THEN /\ net' = Written(net, ReplyOf(h, r.response))
                /\ Completed(h, arr, r.response, WaitNote(why, 0))
                /\ hpc' = [hpc EXCEPT ![h] = "run"]
           ELSE /\ hpc' = [hpc EXCEPT ![h] = "dead"]
                /\ UNCHANGED <<net, slave_repl_offset, last, completed>>
        /\ hctx' = [hctx EXCEPT ![h] = NoCtx]
        /\ UNCHANGED <<quiet, dbVars, masterVars, hbuf, began, sentTo,
                       dispatched, due>>

XReadTriggered(h) ==
    /\ LoopFree(NodeOf(h), "")
    /\ hpc[h] = "xread"
    /\ EventSet(stream_triggers, hctx[h].tid)
    /\ XReadReturns(h, "event")

\* timeout = (int(self.array[2]) / 1000) or sys.maxsize: BLOCK 0 never
\* times out
XReadTimedOut(h) ==
    /\ LoopFree(NodeOf(h), "")
    /\ hpc[h] = "xread"
    /\ PyInt(hctx[h].array[3]).v # 0
    /\ XReadReturns(h, "timeout")

\* CommandXRange._respond: the unpacking raises unless three arguments
\* follow the name, and range raises on a key the store does not hold
CommandXRange(h) ==
    /\ Ready(h)
    /\ \E f \in {Fetch(h)} :
         /\ Yields(f, "XRANGE")
         /\ LET arr == f.cmd
                st  == streams[NodeOf(h)]
            IN  IF Len(arr) # 4 THEN Crashed(h, f)
                ELSE IF arr[2] \notin DOMAIN st THEN Crashed(h, f)
                ELSE Executed(h, f,
                         array(EntryItems(range(st[arr[2]], arr[3], arr[4]))))
    /\ UNCHANGED <<quiet, dbVars, masterVars, began, sentTo, due>>

CommandType(h) ==
    /\ Ready(h)
    /\ \E f \in {Fetch(h)} :
         /\ Yields(f, "TYPE")
         /\ IF Len(f.cmd) < 2 THEN Crashed(h, f) /\ UNCHANGED store
            ELSE LET n == NodeOf(h)
                     g == get(store[n], f.cmd[2], now)
                 IN  /\ store' = [store EXCEPT ![n] = g.store]
                     /\ Executed(h, f,
                           IF g.value # None THEN simple_string("string")
                           ELSE IF read(streams[n], f.cmd[2]) # None
                                THEN simple_string("stream")
                                ELSE simple_string("none"))
    /\ UNCHANGED <<quiet, streams, masterVars, began, sentTo, due>>

(***************************************************************************)
(* Start-up, clients and the clock                                         *)
(***************************************************************************)

\* the most buffers the clients send in one behaviour
MaxSends == 3

\* the clock stops here
MaxTime == 3

\* what Persistence loaded into the master's store when an RDB file exists
\* (_set_kv_pair calls db.set), and the empty store when none does
RdbStores == {<<>>, <<[key |-> "k0", value |-> "v0", expiry |-> None]>>}

NoResult == [kind |-> "none", cmds |-> <<>>, rest |-> "", logged |-> <<>>]

CodecIdle ==
    /\ cval = [enc |-> "array", arg |-> ListItem(<<>>)]
    /\ cbytes = ""
    /\ cresult = NoResult
    /\ cpc = "idle"

\* the commands of a whole _handshake
Handshake(r) == [k \in 1..4 |-> HandshakeCommand(r, k)]

InOrder == <<"R1", "R2", "R3">>

\* the processes once the replicas of `up` have gone through their
\* handshake, one after the other, and nothing else has happened; with no
\* such replica, the processes after construction
Started(up) ==
    LET isUp(r) == r \in up
        ups == SelectSeq(InOrder, isUp)
    IN  /\ now = 1
        /\ store \in [Nodes -> RdbStores]
        /\ \A r \in Replicas : store[r] = <<>>
        /\ streams = [n \in Nodes |-> <<>>]
        /\ hung = [n \in Nodes |-> FALSE]
        /\ master_repl_offset = 0
        /\ replicas = [i \in 1..Len(ups) |->
                         [port |-> MasterLink(ups[i]), replication_offset |-> 0]]
        /\ wait_triggers = <<>>
        /\ stream_triggers = <<>>
        /\ ntrig = 0
        /\ tasks = <<>>
        /\ ntask = 0
        /\ ready = <<>>
        /\ waiters = [e \in Endpoints |-> <<>>]
        /\ paused = [e \in Endpoints |-> FALSE]
        /\ slave_repl_offset = [r \in Replicas |-> 0]
        /\ rstage = [r \in Replicas |-> IF r \in up THEN 5 ELSE 0]
        /\ net = [e \in Endpoints |-> <<>>]
        /\ hbuf = [h \in Handlers |-> ""]
        /\ hpc = [h \in Handlers |->
                    IF h \in {Upstream(r) : r \in Replicas \ up} THEN "handshake"
                    ELSE "run"]
        /\ hctx = [h \in Handlers |-> NoCtx]
        /\ began = <<>>
        /\ sentTo = [e \in Endpoints |-> <<>>]
        /\ last = IF ups = <<>> THEN NoLast
                  ELSE [h |-> MasterLink(ups[Len(ups)]),
                        array |-> HandshakeCommand(ups[Len(ups)], 4),
                        response |-> FullResync(0), time |-> 1, note |-> NoNote]
        /\ sends = 0
        /\ arrived = [h \in Handlers |-> <<>>]
        /\ dispatched = [h \in Handlers |->
                           IF h \in {MasterLink(r) : r \in up}
                           THEN Handshake(CHOOSE r \in up : MasterLink(r) = h)
                           ELSE <<>>]
        /\ completed = dispatched
        /\ due = [n \in Nodes |-> <<>>]

ServerInit == Started({})

\* a client writes a buffer to its connection; the server reads what one
\* write brought before the client writes again
Send(c, buffer) ==
    /\ sends < MaxSends
    /\ NodeUp(NodeOf(c))
    /\ net[c] = <<>>
    /\ net' = [net EXCEPT ![c] = Append(@, buffer)]
    /\ sends' = sends + 1
    /\ arrived' = [arrived EXCEPT ![c] = @ \o parse(buffer, <<>>, <<>>).cmds]
    /\ UNCHANGED <<codecVars, now, dbVars, hung, paused, masterVars,
                   replicaVars, hbuf, hpc, hctx, began, sentTo, last,
                   dispatched, completed, due>>

\* a millisecond passes
Tick ==
    /\ now < MaxTime
    /\ now' = now + 1
    /\ UNCHANGED <<codecVars, dbVars, hung, paused, masterVars, replicaVars,
                   handlerVars, histVars>>

(***************************************************************************)
(* The codec on its own: encode a value, then decode the bytes.            *)
(***************************************************************************)

MaxArrayLen == 2

CodecStrings == {"", "a", "hi", "PING"}

CodecInts == {0, 7, 12}

CodecItems ==
    {StrItem(s) : s \in CodecStrings}
    \cup {NoneItem, IntItem(7), ListItem(<<StrItem("a")>>), ListItem(<<>>)}

SeqsUpTo(S, n) == UNION {[1..k -> S] : k \in 0..n}

\* the values the encoder functions of resp.py are applied to
CodecValues ==
    {[enc |-> "simple_string", arg |-> StrItem(s)] : s \in CodecStrings}
    \cup {[enc |-> "simple_error", arg |-> StrItem(s)] : s \in CodecStrings}
    \cup {[enc |-> "integer", arg |-> IntItem(n)] : n \in CodecInts}
    \cup {[enc |-> "bulk_string", arg |-> i] :
            i \in {StrItem(s) : s \in CodecStrings} \cup {NoneItem}}
    \cup {[enc |-> "array", arg |-> ListItem(a)] :
            a \in SeqsUpTo(CodecItems, MaxArrayLen)}

encode(value) ==
    CASE value.enc = "simple_string" -> simple_string(value.arg.s)
      [] value.enc = "simple_error"  -> simple_error(value.arg.s)
      [] value.enc = "integer"       -> integer(value.arg.n)
      [] value.enc = "bulk_string"   -> bulk_string(value.arg)
      [] value.enc = "array"         -> array(value.arg.l)

CodecInit ==
    /\ cval \in CodecValues
    /\ cbytes = ""
    /\ cresult = NoResult
    /\ cpc = "value"
    /\ ServerInit
    /\ store["M"] = <<>>

CodecEncode ==
    /\ cpc = "value"
    /\ cbytes' = encode(cval)
    /\ cpc' = "encoded"
    /\ UNCHANGED <<cval, cresult, serverVars>>

CodecDecode ==
    /\ cpc = "encoded"
    /\ cresult' = parse(cbytes, <<>>, <<>>)
    /\ cpc' = "decoded"
    /\ UNCHANGED <<cval, cbytes, serverVars>>

CodecNextValue ==
    /\ cpc = "decoded"
    /\ cval' \in CodecValues
    /\ cbytes' = ""
    /\ cresult' = NoResult
    /\ cpc' = "value"
    /\ UNCHANGED serverVars

CodecNext == CodecEncode \/ CodecDecode \/ CodecNextValue

SpecCodec == CodecInit /\ [][CodecNext]_vars

\* whether every item of an array is a str (a command's array)
IsStrArray(value) ==
    value.enc = "array" /\ \A i \in 1..Len(value.arg.l) : value.arg.l[i].t = "str"

\* the logical values the decoder produced: the commands it yielded
DecodedArrays(result) ==
    [i \in 1..Len(result.cmds) |->
        [enc |-> "array", arg |-> ListItem(StrItems(result.cmds[i]))]]

\* C5: for every value the encoder can produce, decoding its bytes ends
\* normally, yields that same logical value and leaves no remainder.
C5_RoundTrip ==
    cpc = "decoded" =>
        /\ cresult.kind = "end"
        /\ cresult.rest = ""
        /\ \/ DecodedArrays(cresult) = <<cval>>
           \/ cval.enc = "simple_string" /\ cresult.logged = <<"+" \o cval.arg.s>>

\* the part of the round trip that concerns a command's array of strings
StrArraysRoundTrip ==
    (cpc = "decoded" /\ IsStrArray(cval) /\ cval.arg.l # <<>>) =>
        /\ cresult.kind = "end"
        /\ cresult.rest = ""
        /\ DecodedArrays(cresult) = <<cval>>

(***************************************************************************)
(* The key-value store under one client of the master                      *)
(***************************************************************************)

StoreInputs ==
    {_pack(<<"SET", "k", "v">>), _pack(<<"GET", "k">>), _pack(<<"KEYS", "*">>)}
    \cup {_pack(<<"SET", "k", "v", "PX", t>>) : t \in {"0", "1", "2"}}

StoreInit == CodecIdle /\ ServerInit

StoreNext ==
    \/ \E buffer \in StoreInputs : Send("c1", buffer)
    \/ Tick
    \/ CommandSet("c1")
    \/ CommandGet("c1")
    \/ CommandKeys("c1")
    \/ \E k \in 1..Len(tasks) : PropagateStart(k)

SpecStore == StoreInit /\ [][StoreNext]_vars

\* the entry a store holds for a key
EntryOf(st, key) == st[IndexOfKey(st, key)]

\* the last command completed was SET key value PX t
LastSetPx == Len(last.array) = 5 /\ Upper(last.array[1]) = "SET"

\* the last command completed was GET of a key whose last SET gave it an
\* expiry that has been reached
LastGetDue ==
    /\ Len(last.array) = 2
    /\ Upper(last.array[1]) = "GET"
    /\ HasKey(due[NodeOf(last.h)], last.array[2])
    /\ EntryOf(due[NodeOf(last.h)], last.array[2]).expiry # None
    /\ last.time >= EntryOf(due[NodeOf(last.h)], last.array[2]).expiry[1]

\* C4: after SET k v PX t, t >= 0, the entry's expiry is the time of the SET
\* plus t, and a GET k at or after that time replies nil and removes k.
C4_LazyExpiry ==
    /\ LastSetPx =>
          EntryOf(store[NodeOf(last.h)], last.array[2]).expiry
            = Some(last.time + PyInt(last.array[5]).v)
    /\ LastGetDue =>
          /\ last.response = bulk_string(NoneItem)
          /\ ~HasKey(store[NodeOf(last.h)], last.array[2])

(***************************************************************************)
(* Streams under a client that adds and a client that reads                *)
(***************************************************************************)

XAddInputs ==
    {_pack(<<"XADD", "s", id, "f", "v">>) :
        id \in {"0-0", "1-0", "9-0", "10-0", "5-*", "*"}}
    \cup {_pack(<<"XADD", "t", "9-0", "f", "v">>), _pack(<<"TYPE", "s">>)}

XReadInputs ==
    {_pack(<<"XREAD", "BLOCK", "0", "STREAMS", "s", "$">>),
     _pack(<<"XREAD", "BLOCK", "5", "STREAMS", "s", "0-0">>),
     _pack(<<"XREAD", "BLOCK", "0", "STREAMS", "s", "9-0">>)}

StreamInit == CodecIdle /\ ServerInit /\ store["M"] = <<>>

StreamNext ==
    \/ \E buffer \in XAddInputs : Send("c1", buffer)
    \/ \E buffer \in XReadInputs : Send("c2", buffer)
    \/ Tick
    \/ CommandXAdd("c1")
    \/ CommandType("c1")
    \/ CommandXRread("c2")
    \/ XReadTriggered("c2")
    \/ XReadTimedOut("c2")

SpecStream == StreamInit /\ [][StreamNext]_vars

\* C1: in every stream the ids of the entries stored are strictly increasing
\* under the numeric order of (ms, seq).
C1_IdsIncrease ==
    \A n \in Nodes : \A key \in DOMAIN streams[n] :
        \A i, j \in 1..Len(streams[n][key]) :
            i < j => NumLess(streams[n][key][i].id, streams[n][key][j].id)

\* the last command completed was an XADD
LastXAdd == Len(last.array) >= 3 /\ Upper(last.array[1]) = "XADD"

\* the XADD stored an entry on a key of the trigger with an id numerically
\* greater than the key's min_id_exclusive
OughtToFire(trigger, key, stored) ==
    /\ stored # None
    /\ \E i \in 1..Len(trigger.conditions) :
          /\ trigger.conditions[i][1] = key
          /\ NumLess(trigger.conditions[i][2], stored[1])

\* C9: an XADD fires the trigger of a blocked XREAD BLOCK exactly when it
\* appends, on one of the trigger's keys, an entry whose id is numerically
\* greater than that key's min_id_exclusive.
C9_FiredExactlyWhenGreater ==
    LastXAdd =>
        \A i \in 1..Len(last.note.before) :
            (last.note.before[i].tid \in last.note.fired)
              <=> OughtToFire(last.note.before[i], last.array[2], last.note.stored)

\* an id of the form ms-seq, both parts numbers
Explicit(id) == WellFormedId(id) /\ PyInt(IdTs(id)).ok

\* the entries a node holds under a key, none when it holds no such stream
EntriesOf(n, key) == IF key \in DOMAIN streams[n] THEN streams[n][key] ELSE <<>>

\* C16: XADD with an explicit id stores the entry and replies the id
\* exactly when the id is not 0-0 and is numerically greater than the last
\* id of the stream; otherwise it replies the error and creates no stream,
\* so that TYPE of a key without a stored entry replies none.
C16_ExplicitIdAcceptedWhenGreater ==
    /\ (LastXAdd /\ Explicit(last.array[3])) =>
          LET id      == last.array[3]
              entries == EntriesOf(NodeOf(last.h), last.array[2])
              n       == Len(entries)
          IN  IF last.note.stored # None
              THEN /\ last.note.stored = Some(id)
                   /\ last.response = bulk_string(StrItem(id))
                   /\ id # "0-0"
                   /\ n >= 2 => NumLess(entries[n - 1].id, id)
              ELSE /\ id = "0-0" \/ (n >= 1 /\ ~NumLess(entries[n].id, id))
                   /\ last.response =
                         simple_error(IF id = "0-0"
                                      THEN "The ID specified in XADD must be greater than 0-0"
                                      ELSE "The ID specified in XADD is equal or smaller than the target stream top item")
    /\ \A n \in Nodes : \A key \in DOMAIN streams[n] : streams[n][key] # <<>>
    /\ (Len(last.array) = 2 /\ Upper(last.array[1]) = "TYPE"
           /\ EntriesOf(NodeOf(last.h), last.array[2]) = <<>>
           /\ ~HasKey(store[NodeOf(last.h)], last.array[2])) =>
          last.response = simple_string("none")

(***************************************************************************)
(* Replication: a master, two replicas and a client of the master          *)
(***************************************************************************)

ReplInputs ==
    {_pack(<<"SET", "k", "v">>),
     _pack(<<"WAIT", "1", "100">>), _pack(<<"WAIT", "2", "100">>)}

\* the most buffers the client sends while replicas come and go
MaxReplSends == 2

\* the replicas that take part: the first has gone through its handshake,
\* the second is about to
ReplReplicas == {"R1", "R2"}

MasterLinks == {MasterLink(r) : r \in ReplReplicas}

Upstreams == {Upstream(r) : r \in ReplReplicas}

ReplInit == CodecIdle /\ Started({"R1"})

ReplNext ==
    \/ ReplicaConnect("R2")
    \/ HandshakeRecv("R2")
    \/ \E h \in MasterLinks : CommandPing(h)
    \/ \E h \in MasterLinks \cup Upstreams : CommandReplConf(h)
    \/ \E h \in MasterLinks : CommandPSync(h)
    \/ \E buffer \in ReplInputs : sends < MaxReplSends /\ Send("c1", buffer)
    \/ \E h \in {"c1"} \cup Upstreams : CommandSet(h)
    \/ CommandWait("c1")
    \/ \E k \in 1..Len(tasks) : PropagateStart(k)
    \/ WaitTriggered("c1")
    \/ WaitTimedOut("c1")

SpecRepl == ReplInit /\ [][ReplNext]_vars

\* the keys and values a store holds, whatever their expiry
Contents(st) == {<<st[i].key, st[i].value>> : i \in 1..Len(st)}

\* the node at the other end of a connection of the master
ReplicaAt(port) == NodeOf(Peer(port))

\* C2: a replica whose ACKed offset is the master's master_repl_offset
\* holds the keys and values the master holds.
C2_SameStoreWhenAcked ==
    \A i \in 1..Len(replicas) :
        replicas[i].replication_offset = master_repl_offset =>
            Contents(store[ReplicaAt(replicas[i].port)]) = Contents(store["M"])

\* the last command completed was a WAIT that the master answered
LastWait ==
    /\ Len(last.array) = 3
    /\ Upper(last.array[1]) = "WAIT"
    /\ Role(NodeOf(last.h)) = "master"

\* C3: the integer a WAIT replies is not lower than the number of
\* registered replicas whose ACKed offset had reached master_repl_offset
\* when the WAIT was dispatched.
C3_WaitNotBelowSeen ==
    LastWait =>
        \E count \in last.note.seen..Len(replicas) :
            last.response = integer(count)

\* a WAIT that found a replica at the offset, registered a trigger all the
\* same, and replied
C3_Witness ==
    /\ LastWait
    /\ last.note.seen >= 1
    /\ last.note.why # "at once"

\* the byte lengths of frames
Lengths(frames) == [i \in 1..Len(frames) |-> Len(frames[i])]

IsWrite(frame) == frame # get_ack

\* C10 as stated: master_repl_offset is the sum of the byte lengths of
\* the write-command frames propagated; REPLCONF GETACK frames do not count.
C10_OffsetCountsWritesOnly ==
    master_repl_offset = SumOf(Lengths(SelectSeq(began, IsWrite)))

\* C10 amended: master_repl_offset is the sum of the byte lengths of all
\* the frames whose propagation began, those of REPLCONF GETACK included.
C10_OffsetCountsEveryFrame == master_repl_offset = SumOf(Lengths(began))

\* a WAIT has propagated REPLCONF GETACK after a write
C10_Witness ==
    /\ \E i \in 1..Len(began) : began[i] = get_ack
    /\ \E i \in 1..Len(began) : began[i] # get_ack

\* C11: a WAIT n that finds fewer than n replicas at master_repl_offset
\* when it is dispatched, whatever that offset, replies only once its
\* trigger was fired by an ACK or its timeout has elapsed.
C11_WaitsForAckOrTimeout ==
    (LastWait /\ last.note.seen < PyInt(last.array[2]).v) =>
        last.note.why \in {"event", "timeout"}

(***************************************************************************)
(* Propagation to three registered replicas that may read slowly           *)
(***************************************************************************)

PropagateInputs ==
    {_pack(<<"SET", "k", "v">>), _pack(<<"SET", "k", "w">>),
     _pack(<<"WAIT", "3", "100">>)}

AllUpstreams == {Upstream(r) : r \in Replicas}

PropagateInit == CodecIdle /\ Started(Replicas) /\ store["M"] = <<>>

PropagateNext ==
    \/ \E buffer \in PropagateInputs : Send("c1", buffer)
    \/ CommandSet("c1")
    \/ CommandWait("c1")
    \/ \E k \in 1..Len(tasks) : PropagateStart(k)
    \/ \E k \in 1..Len(tasks) : PropagateResume(k)
    \/ \E e \in AllUpstreams : PauseWriting(e)
    \/ \E e \in AllUpstreams : ResumeWriting(e)
    \/ WaitTimedOut("c1")

SpecPropagate == PropagateInit /\ [][PropagateNext]_vars

\* whether a sequence of numbers increases strictly
Increasing(q) == \A i, j \in 1..Len(q) : i < j => q[i] < q[j]

\* C6: every replica is written the propagated frames in the order in which
\* the master began to propagate them.
C6_FramesInOrder == \A e \in AllUpstreams : Increasing(sentTo[e])

(***************************************************************************)
(* Connections: two clients of the master, one of which pipelines, blocks  *)
(* and sends bytes that are no frame                                       *)
(***************************************************************************)

ConnInputs ==
    {_pack(<<"PING">>) \o _pack(<<"ECHO", "hi">>),
     _pack(<<"SET", "k", "v">>),
     _pack(<<"WAIT", "1", "100">>) \o _pack(<<"PING">>),
     _pack(<<"XREAD", "BLOCK", "5", "STREAMS", "s", "0-0">>) \o _pack(<<"PING">>),
     _pack(<<"FOO">>),
     "+hello" \o CRLF,
     ":1" \o CRLF,
     "*2" \o CRLF \o "$4" \o CRLF \o "ECHO" \o CRLF}

OtherInputs == {_pack(<<"PING">>), _pack(<<"GET", "k">>)}

ConnInit == CodecIdle /\ ServerInit /\ store["M"] = <<>>

ConnNext ==
    \/ \E buffer \in ConnInputs : Send("c1", buffer)
    \/ \E buffer \in OtherInputs : Send("c2", buffer)
    \/ \E h \in {"c1", "c2"} : CommandPing(h)
    \/ CommandEcho("c1")
    \/ CommandSet("c1")
    \/ CommandGet("c2")
    \/ CommandUnknown("c1")
    \/ CommandWait("c1")
    \/ CommandXRread("c1")
    \/ WaitTimedOut("c1")
    \/ XReadTimedOut("c1")
    \/ \E k \in 1..Len(tasks) : PropagateStart(k)
    \/ ParseEnds("c1")
    \/ ParseRaises("c1")
    \/ ParseHangs("c1")

SpecConn == ConnInit /\ [][ConnNext]_vars

IsPrefix(p, q) == Len(p) <= Len(q) /\ p = SubSeq(q, 1, Len(p))

\* C7: on a connection the commands are dispatched in the order in which
\* they arrived, each only once the one before it has completed and its
\* reply has been written.
C7_OneAtATimeInOrder ==
    \A c \in {"c1", "c2"} :
        /\ IsPrefix(dispatched[c], arrived[c])
        /\ IsPrefix(completed[c], dispatched[c])
        /\ Len(dispatched[c]) <= Len(completed[c]) + 1
        /\ Len(net[Peer(c)]) = Len(completed[c])

\* a command that arrived in the same read as a blocking command was
\* dispatched after it
C7_Witness ==
    /\ Len(completed["c1"]) >= 2
    /\ Upper(completed["c1"][1][1]) \in {"WAIT", "XREAD"}
    /\ last.note.why = "timeout" \/ Upper(last.array[1]) = "PING"

\* C8: whatever bytes a client sends, the server keeps running: no event
\* loop is stuck.
C8_ServerKeepsRunning == \A n \in Nodes : ~hung[n]

(***************************************************************************)
(* A replica after its handshake: frames of a master arrive on the master  *)
(* connection, and a client of the replica sends commands                  *)
(***************************************************************************)

\* what a master writes to the connection: propagated commands, PING and
\* REPLCONF GETACK *, one frame or two to a read
MasterFrames ==
    {_pack(<<"SET", "k", "v">>),
     get_ack,
     _pack(<<"PING">>),
     _pack(<<"XADD", "s", "1-0", "f", "v">>),
     _pack(<<"SET", "k", "w">>) \o get_ack}

ReplicaClientInputs ==
    {_pack(<<"SET", "k", "x">>), _pack(<<"GET", "k">>), _pack(<<"PING">>)}

ReplicaInit == CodecIdle /\ Started({"R1"}) /\ store["M"] = <<>>

ReplicaNext ==
    \/ \E buffer \in MasterFrames : Send("u1", buffer)
    \/ \E buffer \in ReplicaClientInputs : Send("d1", buffer)
    \/ \E h \in {"u1", "d1"} : CommandSet(h)
    \/ \E h \in {"u1", "d1"} : CommandPing(h)
    \/ CommandGet("d1")
    \/ CommandReplConf("u1")
    \/ CommandXAdd("u1")

SpecReplica == ReplicaInit /\ [][ReplicaNext]_vars

\* C12: a replica's slave_repl_offset is the total byte length of the
\* command frames it has executed from the master connection; the
\* commands of its own clients leave it unchanged.
C12_OffsetCountsMasterFrames ==
    \A r \in Replicas :
        slave_repl_offset[r] = SumOf(Lengths([i \in 1..Len(completed[Upstream(r)]) |->
                                                _pack(completed[Upstream(r)][i])]))

IsGetAck(arr) == Len(arr) = 3 /\ Upper(arr[1]) = "REPLCONF" /\ Upper(arr[2]) = "GETACK"

\* the bytes a handler's generator is resumed on
Unparsed(h) == IF hbuf[h] # "" THEN hbuf[h] ELSE Head(net[h])

Settled(h) == hbuf[h] = "" /\ (net[h] = <<>> \/ hpc[h] = "dead")

\* C14: on the master connection a replica writes one REPLCONF ACK for each
\* REPLCONF GETACK it receives and nothing else.
C14_SilentButForAcks ==
    /\ Len(net["m1"]) = Len(SelectSeq(completed["u1"], IsGetAck))
    /\ Settled("u1") =>
          Len(net["m1"]) = Len(SelectSeq(arrived["u1"], IsGetAck))

(***************************************************************************)
(* Mutating commands of a client of the master, with one replica           *)
(***************************************************************************)

ForwardInputs ==
    {_pack(<<"SET", "k", "v">>),
     _pack(<<"XADD", "s", "1-0", "f", "v">>),
     _pack(<<"XADD", "s", "*", "f", "v">>)}

ForwardInit == CodecIdle /\ Started({"R1"}) /\ store["M"] = <<>>

ForwardNext ==
    \/ \E buffer \in ForwardInputs : Send("c1", buffer)
    \/ CommandSet("c1")
    \/ CommandXAdd("c1")
    \/ \E k \in 1..Len(tasks) : PropagateStart(k)
    \/ CommandSet("u1")

SpecForward == ForwardInit /\ [][ForwardNext]_vars

\* the last command completed changed the master's data: a SET, or an XADD
\* that stored an entry
LastMutation ==
    /\ last.h \in {"c1", "c2"}
    /\ Len(last.array) >= 3
    /\ \/ Upper(last.array[1]) = "SET"
       \/ Upper(last.array[1]) = "XADD" /\ last.note.stored # None

\* C15: once the propagations under way have run, the frame of the last
\* mutating command the master executed is the last frame propagated, and
\* it was written to every registered replica.
C15_MutationsForwarded ==
    (LastMutation /\ tasks = <<>>) =>
        /\ began # <<>>
        /\ began[Len(began)] = _pack(last.array)
        /\ \A i \in 1..Len(replicas) :
              LET e == Peer(replicas[i].port)
              IN  sentTo[e] # <<>> /\ sentTo[e][Len(sentTo[e])] = Len(began)

(***************************************************************************)
(* Reading streams: XREAD STREAMS and XRANGE beside a client that adds     *)
(***************************************************************************)

ReadAddInputs ==
    {_pack(<<"XADD", "s", id, "f", "v">>) : id \in {"1-0", "9-0", "10-0"}}

ReadInputs ==
    {_pack(<<"XREAD", "STREAMS", "s", start>>) : start \in {"0-0", "1-0", "9-0"}}
    \cup {_pack(<<"XRANGE", "s", "-", "+">>),
          _pack(<<"XRANGE", "s", "1-0", "9-0">>),
          _pack(<<"XRANGE", "s", "9-0", "10-0">>)}

ReadInit == CodecIdle /\ ServerInit /\ store["M"] = <<>>

ReadNext ==
    \/ \E buffer \in ReadAddInputs : Send("c1", buffer)
    \/ \E buffer \in ReadInputs : Send("c2", buffer)
    \/ CommandXAdd("c1")
    \/ CommandXRread("c2")
    \/ CommandXRange("c2")

SpecRead == ReadInit /\ [][ReadNext]_vars

NumLessEq(a, b) == a = b \/ NumLess(a, b) \/ IdNum(a) = IdNum(b)

\* the last command a handler was given, when it has one
LastDispatched(h) == dispatched[h][Len(dispatched[h])]

IsXReadStreams(arr) ==
    Len(arr) = 4 /\ Upper(arr[1]) = "XREAD" /\ Upper(arr[2]) = "STREAMS"

IsXRange(arr) == Len(arr) = 4 /\ Upper(arr[1]) = "XRANGE"

\* C17: XREAD STREAMS k start replies the entries of k whose id is
\* numerically greater than start, in stream order, and nil when there is
\* none (also when k holds no stream).
C17_XReadAfterStart ==
    /\ IsXReadStreams(last.array) =>
          LET key     == last.array[3]
              start   == last.array[4]
              after(entry) == NumLess(start, entry.id)
              found   == SelectSeq(EntriesOf(NodeOf(last.h), key), after)
          IN  last.response =
                 IF found = <<>> THEN bulk_string(NoneItem)
                 ELSE array(<<ListItem(<<StrItem(key), ListItem(EntryItems(found))>>)>>)
    /\ \A h \in Handlers :
          (hpc[h] = "dead" /\ dispatched[h] # <<>>) => ~IsXReadStreams(LastDispatched(h))

\* C18: XRANGE k start end replies the entries of k whose id lies
\* numerically between start and end, both included, in stream order, `-`
\* standing for the least id and `+` for the greatest; none when k holds
\* no stream.
C18_XRangeBetween ==
    /\ IsXRange(last.array) =>
          LET key     == last.array[2]
              start   == last.array[3]
              end     == last.array[4]
              between(entry) ==
                  /\ start = "-" \/ NumLessEq(start, entry.id)
                  /\ end = "+" \/ NumLessEq(entry.id, end)
          IN  last.response =
                 array(EntryItems(SelectSeq(EntriesOf(NodeOf(last.h), key), between)))
    /\ \A h \in Handlers :
          (hpc[h] = "dead" /\ dispatched[h] # <<>>) => ~IsXRange(LastDispatched(h))

(***************************************************************************)
(* Frames that reach the server in two reads                               *)
(***************************************************************************)

SplitFrames == {_pack(<<"PING">>), _pack(<<"ECHO", "hi">>)}

\* a client writes one frame, and the connection delivers it as two reads:
\* the first `cut` bytes, then the rest
SendSplit(c, frame, cut) ==
    /\ sends < MaxSends
    /\ NodeUp(NodeOf(c))
    /\ net[c] = <<>>
    /\ net' = [net EXCEPT ![c] = <<SubSeq(frame, 1, cut),
                                   SubSeq(frame, cut + 1, Len(frame))>>]
    /\ sends' = sends + 1
    /\ arrived' = [arrived EXCEPT ![c] = @ \o parse(frame, <<>>, <<>>).cmds]
    /\ UNCHANGED <<codecVars, now, dbVars, hung, paused, masterVars,
                   replicaVars, hbuf, hpc, hctx, began, sentTo, last,
                   dispatched, completed, due>>

SplitInit == CodecIdle /\ ServerInit /\ store["M"] = <<>>

SplitNext ==
    \/ \E frame \in SplitFrames : Send("c1", frame)
    \/ \E frame \in SplitFrames : \E cut \in 1..(Len(frame) - 1) :
          SendSplit("c1", frame, cut)
    \/ CommandPing("c1")
    \/ CommandEcho("c1")
    \/ CommandUnknown("c1")
    \/ ParseRaises("c1")
    \/ ParseHangs("c1")

SpecSplit == SplitInit /\ [][SplitNext]_vars

\* C20: the commands executed on a connection are the commands of the
\* frames sent on it, whole and in order, each once, however the frames
\* were cut into reads; once all that arrived has been read, all of them
\* have been executed.
C20_SplitFramesExecutedWhole ==
    \A c \in {"c1"} :
        /\ IsPrefix(dispatched[c], arrived[c])
        /\ Settled(c) => completed[c] = arrived[c]
        /\ ~hung[NodeOf(c)]

(***************************************************************************)
(* A replica's connection closes while the master goes on serving          *)
(***************************************************************************)

CloseInputs ==
    {_pack(<<"SET", "k", "v">>), _pack(<<"WAIT", "1", "100">>),
     _pack(<<"WAIT", "2", "100">>)}

CloseInit == CodecIdle /\ Started({"R1", "R2"}) /\ store["M"] = <<>>

CloseNext ==
    \/ \E buffer \in CloseInputs : Send("c1", buffer)
    \/ Send("c2", _pack(<<"PING">>))
    \/ ConnectionClosed("m1")
    \/ CommandSet("c1")
    \/ CommandWait("c1")
    \/ CommandPing("c2")
    \/ \E k \in 1..Len(tasks) : PropagateStart(k)
    \/ CommandSet("u2")
    \/ \E h \in {"u2", "m2"} : CommandReplConf(h)
    \/ WaitTriggered("c1")
    \/ WaitTimedOut("c1")

SpecClose == CloseInit /\ [][CloseNext]_vars

\* the replicas of a registry whose connection has not closed
Open(reps) == {i \in 1..Len(reps) : hpc[reps[i].port] # "closed"}

IsWait(arr) == Len(arr) = 3 /\ Upper(arr[1]) = "WAIT"

\* C19: once the master has used its registry (it began a propagation or
\* was given a WAIT) the registry holds no replica whose connection has
\* closed and the client's handler lives on; and the count a WAIT replies
\* does not exceed the number of replicas whose connection is open.
C19_ClosedReplicaDropped ==
    [][/\ (\/ began' # began
           \/ dispatched'["c1"] # dispatched["c1"]
                /\ IsWait(dispatched'["c1"][Len(dispatched'["c1"])])) =>
             /\ \A i \in 1..Len(replicas') : hpc[replicas'[i].port] # "closed"
             /\ hpc'["c1"] # "dead"
       /\ (completed'["c1"] # completed["c1"] /\ IsWait(last'.array)) =>
             \E count \in 0..Cardinality(Open(replicas)) :
                 last'.response = integer(count)]_vars

(***************************************************************************)
(* XREAD BLOCK over one and over two streams, with `$` among the ids       *)
(***************************************************************************)

DollarAddInputs ==
    {_pack(<<"XADD", "s", "1-0", "f", "v">>),
     _pack(<<"XADD", "t", "2-0", "f", "v">>)}

DollarInputs ==
    {_pack(<<"XREAD", "BLOCK", "0", "STREAMS", "s", "$">>),
     _pack(<<"XREAD", "BLOCK", "5", "STREAMS", "s", "t", "$", "$">>),
     _pack(<<"XREAD", "BLOCK", "5", "STREAMS", "s", "t", "0-0", "$">>),
     _pack(<<"XREAD", "BLOCK", "5", "STREAMS", "s", "t", "$", "0-0">>)}

DollarInit == CodecIdle /\ ServerInit /\ store["M"] = <<>>

DollarNext ==
    \/ \E buffer \in DollarAddInputs : Send("c1", buffer)
    \/ \E buffer \in DollarInputs : Send("c2", buffer)
    \/ CommandXAdd("c1")
    \/ CommandXRread("c2")
    \/ XReadTriggered("c2")
    \/ XReadTimedOut("c2")

SpecDollar == DollarInit /\ [][DollarNext]_vars

\* XREAD BLOCK ms STREAMS k1..km id1..idm with m >= 1 and an integer ms
IsXReadBlock(arr) ==
    /\ Len(arr) >= 6 /\ Len(arr) % 2 = 0
    /\ Upper(arr[1]) = "XREAD" /\ Upper(arr[2]) = "BLOCK"
    /\ PyInt(arr[3]).ok

\* the last id of a stream of a node, 0-0 when it has no entries
LastIdOf(n, key) ==
    LET entries == EntriesOf(n, key)
    IN  IF entries = <<>> THEN "0-0" ELSE entries[Len(entries)].id

\* the command with every id `$` replaced by the last id of the key it is
\* paired with, and every other element as it was
DollarsReplaced(arr, n) ==
    LET m == (Len(arr) - 4) \div 2
    IN  [i \in 1..Len(arr) |->
            IF i > 4 + m /\ arr[i] = "$" THEN LastIdOf(n, arr[i - m]) ELSE arr[i]]

\* C21: when an XREAD BLOCK ms STREAMS k1..km id1..idm is dispatched, a
\* trigger is registered whose conditions pair every key kj with idj, or
\* with the last id of stream kj (0-0 if it has no entries or does not
\* exist) where idj is `$`, and the command waits with exactly that array.
C21_DollarsReplaced ==
    [][(/\ Len(dispatched'["c2"]) = Len(dispatched["c2"]) + 1
        /\ IsXReadBlock(dispatched'["c2"][Len(dispatched'["c2"])])) =>
          LET arr  == dispatched'["c2"][Len(dispatched'["c2"])]
              want == DollarsReplaced(arr, "M")
          IN  /\ hpc'["c2"] = "xread"
              /\ hctx'["c2"].array = want
              /\ Len(stream_triggers') = Len(stream_triggers) + 1
              /\ stream_triggers'[Len(stream_triggers')].conditions
                    = to_pairs(SubSeq(want, 5, Len(want)))]_vars

(***************************************************************************)
(* SET and WAIT of one client, in separate reads and in a single read      *)
(***************************************************************************)

PipelineInputs ==
    {_pack(<<"SET", "k", "v">>),
     _pack(<<"WAIT", "1", "100">>),
     _pack(<<"SET", "k", "v">>) \o _pack(<<"WAIT", "1", "100">>)}

PipelineInit == CodecIdle /\ Started({"R1"}) /\ store["M"] = <<>>

PipelineNext ==
    \/ \E buffer \in PipelineInputs : Send("c1", buffer)
    \/ CommandSet("c1")
    \/ CommandWait("c1")
    \/ \E k \in 1..Len(tasks) : PropagateStart(k)
    \/ CommandSet("u1")
    \/ \E h \in {"u1", "m1"} : CommandReplConf(h)
    \/ WaitTriggered("c1")
    \/ WaitTimedOut("c1")

SpecPipeline == PipelineInit /\ [][PipelineNext]_vars

IsSet(arr) == Len(arr) >= 3 /\ Upper(arr[1]) = "SET"

\* the frames of the SETs among the commands, in order
SetFrames(cmds) ==
    LET sets == SelectSeq(cmds, IsSet)
    IN  [i \in 1..Len(sets) |-> _pack(sets[i])]

\* the offset of the replication stream at the end of the last of the
\* frames `sets`, which the master propagates in this order: the frames
\* whose propagation began are `frames`; those that are yet to begin
\* follow them
RECURSIVE OffsetAfter(_, _)
OffsetAfter(frames, sets) ==
    IF sets = <<>> THEN 0
    ELSE IF frames = <<>> THEN SumOf(Lengths(sets))
    ELSE Len(Head(frames))
            + OffsetAfter(Tail(frames),
                          IF Head(frames) = Head(sets) THEN Tail(sets) ELSE sets)

\* the replicas of the registry that have ACKed this offset or a later one
AckedAtLeast(offset) ==
    {i \in 1..Len(replicas) : replicas[i].replication_offset >= offset}

\* C22: the count the master replies to a WAIT of the client is at most the
\* number of registered replicas that have ACKed an offset that includes
\* the frame of every SET completed on the client's connection before it.
C22_WaitCountsAckedSets ==
    (LastWait /\ last.h = "c1") =>
        \E count \in 0..Cardinality(AckedAtLeast(
                            OffsetAfter(began, SetFrames(completed["c1"])))) :
            last.response = integer(count)

(***************************************************************************)
(* The trigger lists of a master under WAIT and XREAD BLOCK                *)
(***************************************************************************)

TriggerInputs ==
    {_pack(<<"SET", "k", "v">>),
     _pack(<<"WAIT", "1", "100">>), _pack(<<"WAIT", "2", "100">>),
     _pack(<<"XADD", "s", "1-0", "f", "v">>),
     _pack(<<"XADD", "s", "2-0", "f", "v">>)}

TriggerReadInputs == {_pack(<<"XREAD", "BLOCK", "5", "STREAMS", "s", "1-0">>)}

TriggerInit == CodecIdle /\ Started({"R1"}) /\ store["M"] = <<>>

TriggerNext ==
    \/ \E buffer \in TriggerInputs : Send("c1", buffer)
    \/ \E buffer \in TriggerReadInputs : Send("c2", buffer)
    \/ CommandSet("c1")
    \/ CommandWait("c1")
    \/ CommandXAdd("c1")
    \/ \E k \in 1..Len(tasks) : PropagateStart(k)
    \/ CommandSet("u1")
    \/ \E h \in {"u1", "m1"} : CommandReplConf(h)
    \/ WaitTriggered("c1")
    \/ WaitTimedOut("c1")
    \/ CommandXRread("c2")
    \/ XReadTriggered("c2")
    \/ XReadTimedOut("c2")

SpecTriggers == TriggerInit /\ [][TriggerNext]_vars

\* a command that registered the trigger has not returned yet
StillAwaited(tid, pcs) ==
    \E h \in Handlers : hpc[h] \in pcs /\ hctx[h].tid = tid

\* C23: every trigger in wait_triggers belongs to a WAIT that has not
\* replied yet, and every trigger in stream_triggers to an XREAD BLOCK that
\* has not replied yet.
C23_TriggersBelongToWaiters ==
    /\ \A i \in 1..Len(wait_triggers) :
          StillAwaited(wait_triggers[i].tid, {"wait", "propagate"})
    /\ \A i \in 1..Len(stream_triggers) :
          StillAwaited(stream_triggers[i].tid, {"xread"})

====
